---- MODULE Spec2Model ----
(***************************************************************************)
(* Model of the restd crate: the HelloWorldInspector (an revm Inspector    *)
(* that counts steps and calls and prints trace lines) and the             *)
(* HelloWorldInspectorPlugin that wraps a configuration and creates        *)
(* inspectors.                                                             *)
(*                                                                         *)
(* The host engine (revm) is the environment: it invokes the hooks in any  *)
(* order with any inputs.  Two slots are driven side by side with the same *)
(* hook sequence, one per plugin, so that the behaviour of the inspectors  *)
(* of two differently configured plugins can be compared.                  *)
(***************************************************************************)
EXTENDS Integers, Sequences, FiniteSets, TLC

\* Width, in bits, that models the u64 of step_count and call_count.
CounterBits == 8

\* Number of createObserver / constructor rounds of the plugin specification.
MaxCreate == 2

\* Invocations of one counted hook per observer in the plugin specification.
MaxPluginHooks == 2

\* Invocations of the less used of the two counted hooks per observer.
MaxMixed == 3

U64_MAX == 2 ^ CounterBits - 1

\* Invocations of one counted hook (step or call) per observer: enough to
\* overflow its counter and to go on afterwards.
MaxHooks == U64_MAX + 2

\* The host drives the step hook and the call hook up to cap times each, one
\* of the two at most MaxMixed times.
InBounds(s, c, cap) ==
  /\ s <= cap
  /\ c <= cap
  /\ (s <= MaxMixed \/ c <= MaxMixed)

Slots == {1, 2}

\* ------------------------------------------------------------- inputs
Opcodes == {0, 1}
Addresses == {1, 2}
Interpreters == [opcode : Opcodes]
Logs == {[topics |-> 0, data_len |-> 0], [topics |-> 2, data_len |-> 1]}
CallInputsSet == [target_address : Addresses]
CreateInputsSet == [init_code_len : {0, 1}]
CallOutcomes == {[result |-> "Return", output |-> 1], [result |-> "Revert", output |-> 0]}
CreateOutcomes == {[result |-> "Return", address |-> 1], [result |-> "Revert", address |-> 0]}
Values == {0}

NoArg == <<>>
Void == <<"void">>
None == <<"None">>
NoReturn == <<"panic">>

\* InstructionResult::is_ok as used on outcome.result
is_ok(result) == result \in {"Continue", "Stop", "Return", "SelfDestruct"}

VARIABLES
  overflow_checks,  \* build profile: TRUE when `+=` panics on overflow
  plugin,           \* slot -> HelloWorldInspectorPlugin
  inspector,        \* slot -> HelloWorldInspector
  panicked,         \* a hook invocation unwound with a panic
  hook,             \* the operation invoked last
  handed,           \* the call/create inputs or the outcome handed to it
  res,              \* slot -> [ret, out, inputs, info] of that invocation
  n_step,           \* step-hook invocations since construction
  n_call,           \* call-hook invocations since construction
  step_lines,       \* step trace lines printed since construction (slot 1)
  call_seen,        \* count carried by the latest call trace line (slot 1)
  call_prev,        \* count carried by the call trace line before it
  created,          \* construction rounds so far
  retired           \* the observer of slot 1 replaced by the latest round

vars == <<overflow_checks, plugin, inspector, panicked, hook, handed, res,
          n_step, n_call, step_lines, call_seen, call_prev, created, retired>>

\* ------------------------------------------------------------- observer
HelloWorldInspector_default == [step_count |-> 0, call_count |-> 0]

\* No observer constructed (or replaced) yet.
Absent == [step_count |-> -1, call_count |-> -1]

\* What one operation did: the receiver afterwards, the value returned, the
\* lines printed on stdout, the inputs behind the &mut reference afterwards,
\* the tracing `info!` lines, and whether it unwound with a panic.
Done(self, ret, out, inputs) ==
  [self |-> self, ret |-> ret, out |-> out, inputs |-> inputs, info |-> <<>>,
   panic |-> FALSE]

Panic(self, inputs) ==
  [self |-> self, ret |-> NoReturn, out |-> <<>>, inputs |-> inputs,
   info |-> <<>>, panic |-> TRUE]

HelloWorldInspector_new ==
  Done(HelloWorldInspector_default, HelloWorldInspector_default,
       << <<"Inspector initialized">> >>, NoArg)

steps(self) == self.step_count

calls(self) == self.call_count

\* `x += 1` on a u64 that holds u64::MAX
overflows(x) == x = U64_MAX

wrapping_inc(x) == (x + 1) % (U64_MAX + 1)

initialize_interp(self, interp) ==
  Done(self, Void, << <<"Interpreter initializing">> >>, NoArg)

step(self, interp) ==
  IF overflows(self.step_count) /\ overflow_checks
  THEN Panic(self, NoArg)
  ELSE LET n == wrapping_inc(self.step_count)
       IN Done([self EXCEPT !.step_count = n], Void,
               IF n % 100 = 0 THEN << <<"Step", n, interp.opcode>> >> ELSE <<>>,
               NoArg)

\* step_end that counts the instruction a second time.
step_end_counting(self, interp) ==
  Done([self EXCEPT !.step_count = wrapping_inc(self.step_count)], Void, <<>>, NoArg)

step_end(self, interp) == Done(self, Void, <<>>, NoArg)

log(self, interp, l) ==
  Done(self, Void, << <<"Log", l.topics, l.data_len>> >>, NoArg)

call(self, inputs) ==
  IF overflows(self.call_count) /\ overflow_checks
  THEN Panic(self, inputs)
  ELSE LET n == wrapping_inc(self.call_count)
       IN Done([self EXCEPT !.call_count = n], None,
               << <<"Call", n, inputs.target_address>> >>, inputs)

\* call_end that reports every call as a success to the host.
call_end_masking(self, inputs, outcome) ==
  Done(self, [outcome EXCEPT !.result = "Return"],
       << <<"CallEnd", is_ok(outcome.result)>> >>, inputs)

call_end(self, inputs, outcome) ==
  Done(self, outcome, << <<"CallEnd", is_ok(outcome.result)>> >>, inputs)

create(self, inputs) ==
  Done(self, None, << <<"Create", inputs.init_code_len>> >>, inputs)

create_end(self, inputs, outcome) ==
  Done(self, outcome, << <<"CreateEnd", is_ok(outcome.result)>> >>, inputs)

selfdestruct(self, contract, target, value) ==
  Done(self, Void, << <<"SelfDestruct", contract, value, target>> >>, NoArg)

\* ------------------------------------------------------------- plugin
HelloWorldInspectorConfig_default ==
  [verbose |-> FALSE, log_steps |-> FALSE, trace_calls |-> FALSE]

create_config(verbose) ==
  [verbose |-> verbose, log_steps |-> TRUE, trace_calls |-> TRUE]

create_detailed_config(verbose, log_steps, trace_calls) ==
  [verbose |-> verbose, log_steps |-> log_steps, trace_calls |-> trace_calls]

HelloWorldInspectorPlugin_new(config) == [config |-> config]

HelloWorldInspectorPlugin_default == [config |-> HelloWorldInspectorConfig_default]

create_plugin == HelloWorldInspectorPlugin_default

\* An operation that also wrote `lines` through tracing's info!.
Info(r, lines) == [r EXCEPT !.info = lines]

\* name() that answers with the Display text of the plugin.
name_display(self) == Done(self, "HelloWorldInspectorPlugin", <<>>, NoArg)

name(self) == Done(self, "hello-world-inspector", <<>>, NoArg)

config(self) == Done(self, self.config, <<>>, NoArg)

init(self) ==
  Info(Done(self, <<"Ok">>, <<>>, NoArg), << <<"Initializing", self.config>> >>)

\* create_inspector that hands out the observer in use instead of a new one.
create_inspector_shared(self) ==
  Info(Done(self, IF created > 0 THEN inspector[1] ELSE HelloWorldInspector_default,
            <<>>, NoArg),
       << <<"Creating HelloWorldInspector instance">> >>)

\* create_inspector that builds with HelloWorldInspector::new(), which prints,
\* when the configuration is verbose.
create_inspector_verbose(self) ==
  Info(Done(self, HelloWorldInspector_default,
            IF self.config.verbose THEN HelloWorldInspector_new.out ELSE <<>>,
            NoArg),
       << <<"Creating HelloWorldInspector instance">> >>)

create_inspector(self) ==
  Info(Done(self, HelloWorldInspector_default, <<>>, NoArg),
       << <<"Creating HelloWorldInspector instance">> >>)

register_inspector ==
  Info(Done(HelloWorldInspector_default, Void, <<>>, NoArg),
       << <<"Registering HelloWorldInspector with reth EVM">> >>)

Configs ==
  {create_detailed_config(v, l, t) : v \in BOOLEAN, l \in BOOLEAN, t \in BOOLEAN}
    \cup {create_config(v) : v \in BOOLEAN}

Plugins == {HelloWorldInspectorPlugin_new(c) : c \in Configs} \cup {create_plugin}

\* ------------------------------------------------------------- driving
Record(r) == [ret |-> r.ret, out |-> r.out, inputs |-> r.inputs, info |-> r.info]

\* The host invokes hook h on the observer of every slot; r is the outcome
\* of the invocation in each slot.
Drive(h, a, r) ==
  /\ hook' = h
  /\ handed' = a
  /\ inspector' = [i \in Slots |-> r[i].self]
  /\ res' = [i \in Slots |-> Record(r[i])]
  /\ panicked' = (\E i \in Slots : r[i].panic)
  /\ UNCHANGED <<overflow_checks, plugin, created, retired>>

Live == created > 0 /\ ~panicked

InitializeInterp ==
  /\ Live
  /\ \E interp \in Interpreters :
       Drive("initialize_interp", NoArg,
             [i \in Slots |-> initialize_interp(inspector[i], interp)])
  /\ UNCHANGED <<n_step, n_call, step_lines, call_seen, call_prev>>

Step(cap) ==
  /\ Live
  /\ InBounds(n_step + 1, n_call, cap)
  /\ \E interp \in Interpreters :
       LET r == [i \in Slots |-> step(inspector[i], interp)]
       IN /\ Drive("step", NoArg, r)
          /\ step_lines' = step_lines + Len(r[1].out)
  /\ n_step' = n_step + 1
  /\ UNCHANGED <<n_call, call_seen, call_prev>>

StepEnd ==
  /\ Live
  /\ \E interp \in Interpreters :
       Drive("step_end", NoArg,
             [i \in Slots |-> step_end(inspector[i], interp)])
  /\ UNCHANGED <<n_step, n_call, step_lines, call_seen, call_prev>>

Log ==
  /\ Live
  /\ \E interp \in Interpreters, l \in Logs :
       Drive("log", NoArg, [i \in Slots |-> log(inspector[i], interp, l)])
  /\ UNCHANGED <<n_step, n_call, step_lines, call_seen, call_prev>>

Call(cap) ==
  /\ Live
  /\ InBounds(n_step, n_call + 1, cap)
  /\ \E inputs \in CallInputsSet :
       LET r == [i \in Slots |-> call(inspector[i], inputs)]
       IN /\ Drive("call", inputs, r)
          /\ IF r[1].out = <<>>
             THEN UNCHANGED <<call_seen, call_prev>>
             ELSE call_seen' = r[1].out[1][2] /\ call_prev' = call_seen
  /\ n_call' = n_call + 1
  /\ UNCHANGED <<n_step, step_lines>>

CallEnd ==
  /\ Live
  /\ \E inputs \in CallInputsSet, outcome \in CallOutcomes :
       Drive("call_end", outcome,
             [i \in Slots |-> call_end(inspector[i], inputs, outcome)])
  /\ UNCHANGED <<n_step, n_call, step_lines, call_seen, call_prev>>

Create ==
  /\ Live
  /\ \E inputs \in CreateInputsSet :
       Drive("create", inputs, [i \in Slots |-> create(inspector[i], inputs)])
  /\ UNCHANGED <<n_step, n_call, step_lines, call_seen, call_prev>>

CreateEnd ==
  /\ Live
  /\ \E inputs \in CreateInputsSet, outcome \in CreateOutcomes :
       Drive("create_end", outcome,
             [i \in Slots |-> create_end(inspector[i], inputs, outcome)])
  /\ UNCHANGED <<n_step, n_call, step_lines, call_seen, call_prev>>

SelfDestruct ==
  /\ Live
  /\ \E contract \in Addresses, target \in Addresses, value \in Values :
       Drive("selfdestruct", NoArg,
             [i \in Slots |-> selfdestruct(inspector[i], contract, target, value)])
  /\ UNCHANGED <<n_step, n_call, step_lines, call_seen, call_prev>>

\* ------------------------------------------------------------- observer spec
\* One traced execution: the observer is built with HelloWorldInspector::new()
\* and handed to the host.
Init ==
  /\ overflow_checks \in BOOLEAN
  /\ plugin = [i \in Slots |-> create_plugin]
  /\ inspector = [i \in Slots |-> HelloWorldInspector_new.self]
  /\ panicked = FALSE
  /\ hook = "new"
  /\ handed = NoArg
  /\ res = [i \in Slots |-> Record(HelloWorldInspector_new)]
  /\ n_step = 0
  /\ n_call = 0
  /\ step_lines = 0
  /\ call_seen = 0
  /\ call_prev = 0
  /\ created = 1
  /\ retired = Absent

Next ==
  \/ InitializeInterp
  \/ Step(MaxHooks)
  \/ StepEnd
  \/ Log
  \/ Call(MaxHooks)
  \/ CallEnd
  \/ Create
  \/ CreateEnd
  \/ SelfDestruct

Spec == Init /\ [][Next]_vars

\* ------------------------------------------------------------- plugin spec
\* A plugin operation op(self) is called on the plugin of every slot.
Operate(h, r) ==
  /\ ~panicked
  /\ hook' = h
  /\ handed' = NoArg
  /\ plugin' = [i \in Slots |-> r[i].self]
  /\ res' = [i \in Slots |-> Record(r[i])]
  /\ UNCHANGED <<overflow_checks, inspector, panicked, n_step, n_call,
                 step_lines, call_seen, call_prev, created, retired>>

PluginName == Operate("name", [i \in Slots |-> name(plugin[i])])

PluginConfig == Operate("config", [i \in Slots |-> config(plugin[i])])

PluginInit == Operate("init", [i \in Slots |-> init(plugin[i])])

RegisterInspector ==
  /\ ~panicked
  /\ hook' = "register_inspector"
  /\ handed' = NoArg
  /\ res' = [i \in Slots |-> Record(register_inspector)]
  /\ UNCHANGED <<overflow_checks, plugin, inspector, panicked, n_step, n_call,
                 step_lines, call_seen, call_prev, created, retired>>

\* A new observer is constructed in every slot and handed to the host; the
\* observer it replaces stays as it was.  r[i].ret is the new observer.
Construct(h, r) ==
  /\ ~panicked
  /\ created < MaxCreate
  /\ hook' = h
  /\ handed' = NoArg
  /\ inspector' = [i \in Slots |-> r[i].ret]
  /\ res' = [i \in Slots |-> Record(r[i])]
  /\ retired' = inspector[1]
  /\ created' = created + 1
  /\ n_step' = 0
  /\ n_call' = 0
  /\ step_lines' = 0
  /\ call_seen' = 0
  /\ call_prev' = 0
  /\ UNCHANGED <<overflow_checks, plugin, panicked>>

CreateInspector ==
  Construct("create_inspector", [i \in Slots |-> create_inspector(plugin[i])])

ConstructNew == Construct("new", [i \in Slots |-> HelloWorldInspector_new])

ConstructDefault ==
  Construct("default",
            [i \in Slots |-> Done(HelloWorldInspector_default,
                                  HelloWorldInspector_default, <<>>, NoArg)])

\* The plugin of slot 1 is create_plugin(); the plugin of slot 2 holds any
\* configuration.  No observer exists yet.
InitPlugin ==
  /\ overflow_checks \in BOOLEAN
  /\ plugin \in {p \in [Slots -> Plugins] : p[1] = create_plugin}
  /\ inspector = [i \in Slots |-> Absent]
  /\ panicked = FALSE
  /\ hook = "plugin"
  /\ handed = NoArg
  /\ res = [i \in Slots |-> Record(Done(plugin[i], plugin[i], <<>>, NoArg))]
  /\ n_step = 0
  /\ n_call = 0
  /\ step_lines = 0
  /\ call_seen = 0
  /\ call_prev = 0
  /\ created = 0
  /\ retired = Absent

NextPlugin ==
  \/ PluginName
  \/ PluginConfig
  \/ PluginInit
  \/ RegisterInspector
  \/ CreateInspector
  \/ ConstructNew
  \/ ConstructDefault
  \/ InitializeInterp
  \/ Step(MaxPluginHooks)
  \/ StepEnd
  \/ Log
  \/ Call(MaxPluginHooks)
  \/ CallEnd
  \/ Create
  \/ CreateEnd
  \/ SelfDestruct

SpecPlugin == InitPlugin /\ [][NextPlugin]_vars

\* ------------------------------------------------------------- properties
HookNames ==
  {"initialize_interp", "step", "step_end", "log", "call", "call_end",
   "create", "create_end", "selfdestruct"}

\* C1: after any sequence of hook invocations on an observer, step_count is
\* the number of step-hook invocations since construction and call_count is
\* the number of call-hook invocations since construction.
C1_CountersExact ==
  \A i \in Slots :
    /\ steps(inspector[i]) = n_step
    /\ calls(inspector[i]) = n_call

\* C2: a step-hook invocation prints a trace line exactly when step_count
\* after the increment is a positive multiple of 100, the line carries that
\* count, and N invocations on a fresh observer print N \div 100 lines.
C2_StepTraceEvery100 ==
  /\ hook = "step" =>
       \A i \in Slots :
         LET c == steps(inspector[i])
         IN IF c > 0 /\ c % 100 = 0
            THEN /\ Len(res[i].out) = 1
                 /\ res[i].out[1][1] = "Step"
                 /\ res[i].out[1][2] = c
            ELSE res[i].out = <<>>
  /\ step_lines = n_step \div 100

\* C3: the call and create pre-hooks return None on every invocation, in
\* every observer state and for every input, and leave the inputs they are
\* handed as they were.
C3_NoOverride ==
  hook \in {"call", "create"} =>
    \A i \in Slots :
      /\ res[i].ret = None
      /\ res[i].inputs = handed

\* C4: the call and create post-hooks return exactly the outcome they were
\* given, whether it signals success or failure, in every observer state.
C4_OutcomePassThrough ==
  hook \in {"call_end", "create_end"} =>
    \A i \in Slots : res[i].ret = handed

\* C4 witness: call_end handed a reverted outcome, while step_count holds the
\* largest value of its type.
C4_Witness ==
  /\ hook = "call_end"
  /\ handed.result = "Revert"
  /\ res[1].ret.result = "Revert"
  /\ steps(inspector[1]) = U64_MAX

\* C5: every call-hook invocation prints exactly one trace line, carrying
\* call_count after the increment: the k-th invocation reports k, and the
\* reported counts are strictly increasing.
C5_CallTraceCounts ==
  /\ hook = "call" =>
       \A i \in Slots :
         res[i].out = << <<"Call", n_call, handed.target_address>> >>
  /\ n_call > 0 => call_seen = n_call /\ call_prev < call_seen

\* C6: no hook invocation lowers step_count or call_count, also when a
\* counter holds the largest value of its type.
C6_CountersNeverDecrease ==
  [][\A i \in Slots :
       /\ steps(inspector'[i]) >= steps(inspector[i])
       /\ calls(inspector'[i]) >= calls(inspector[i])]_vars

\* C7: no hook invocation panics: each of the nine hooks returns normally in
\* every observer state, counters at their largest value included.
C7_NoPanic == ~panicked

Constructors == {"new", "default", "create_inspector"}

\* C8: every newly constructed observer has step_count = 0 and call_count = 0,
\* whether built by new(), by default construction or by the plugin's
\* create_inspector, however many observers were created before and whatever
\* hooks were invoked on them.
C8_FreshObserverZero ==
  hook \in Constructors =>
    \A i \in Slots :
      /\ steps(inspector[i]) = 0
      /\ calls(inspector[i]) = 0
      /\ res[i].ret = inspector[i]

\* C8 witness: create_inspector is called again after the observer created
\* before has counted steps and calls.
C8_Witness ==
  /\ hook = "create_inspector"
  /\ created >= 2
  /\ steps(retired) > 0
  /\ calls(retired) > 0
  /\ steps(inspector[1]) = 0
  /\ calls(inspector[1]) = 0

C10_NameLiteral ==
  /\ [](hook = "name" =>
          \A i \in Slots : res[i].ret = "hello-world-inspector")
  /\ [][hook' = "name" =>
          /\ UNCHANGED <<plugin, inspector, panicked, created, retired>>
          /\ \A i \in Slots : res'[i].out = <<>> /\ res'[i].info = <<>>]_vars

\* C10 witness: name() is called on a plugin with a verbose configuration
\* after observers were created and driven.
C10_Witness ==
  /\ hook = "name"
  /\ plugin[2].config.verbose
  /\ created >= 2
  /\ calls(inspector[2]) > 0
  /\ res[2].ret = "hello-world-inspector"

\* C11: only the step hook changes step_count and only the call hook changes
\* call_count; initialize_interp, step_end, log, call_end, create, create_end
\* and selfdestruct leave both counters as they were.  So an observer on which
\* neither the step nor the call hook was invoked still reads 0 and 0.
C11_CounterFrame ==
  /\ [][\A i \in Slots :
          /\ hook' # "step" => steps(inspector'[i]) = steps(inspector[i])
          /\ hook' # "call" => calls(inspector'[i]) = calls(inspector[i])]_vars
  /\ [](n_step = 0 /\ n_call = 0 =>
          \A i \in Slots : steps(inspector[i]) = 0 /\ calls(inspector[i]) = 0)

\* C11 witness: step_end was invoked on an observer that has counted steps
\* and calls, and the counters still read what they counted.
C11_Witness ==
  /\ hook = "step_end"
  /\ n_step > 0
  /\ n_call > 0
  /\ steps(inspector[1]) = n_step
  /\ calls(inspector[1]) = n_call

====
